---------------------------- MODULE Spec2Model ----------------------------
(***************************************************************************)
(* Model of src/src/ragntex_processing.py (RAGnTeX PDF figure extraction). *)
(*                                                                         *)
(* Two specifications share this module:                                   *)
(*   SpecGroup  the grouping functions group_bounding_boxes and            *)
(*              process_large_drawing applied to bounded drawing lists;    *)
(*   Spec       extract_pdf_ragntex driving extract_images and             *)
(*              extract_vector over the pages of a bounded document.       *)
(*                                                                         *)
(* A rectangle is a tuple <<x0, y0, x1, y1>> (fitz.Rect); coordinates are  *)
(* integers here.  The operations of fitz.Rect and of rtree.index.Index    *)
(* are modelled by what these libraries do at the places the source calls  *)
(* them.                                                                   *)
(***************************************************************************)
EXTENDS Integers, Sequences, FiniteSets

VARIABLES
  \* ---- SpecGroup: one call chain of the grouping functions
  drawings,      \* the list handed to process_large_drawing (rectangles)
  threshold,     \* the threshold argument
  adj_list,      \* adjacency lists built by group_bounding_boxes
  components,    \* connected components (as lists of input indices)
  merged,        \* the list group_bounding_boxes returns
  prev,          \* <<threshold and components of the previous, lower-threshold call>>
  max_drawings,  \* the max_drawings argument of process_large_drawing
  chunks,        \* the chunks process_large_drawing sliced (empty on the direct path)
  large,         \* the list process_large_drawing returns
  gpc,           \* position in the call chain
  \* ---- Spec: extract_pdf_ragntex on one document
  doc,           \* the pages of the opened document
  pc,            \* position in extract_pdf_ragntex / extract_images / extract_vector
  page_num,      \* enumerate(doc) index, zero-based
  text,          \* the accumulating text
  img_index,     \* enumerate(images) index, zero-based
  grouped,       \* the list process_large_drawing returned for the page
  group_num,     \* enumerate(grouped) index, zero-based
  surrounding,   \* the text block rectangles found around the current group
  figure_bbox,   \* figure_bbox of the candidate being handled
  log,           \* the effects so far, in order: page text appended, file written
  text_file      \* content of ragntex.txt, or None while not written

gvars == <<drawings, threshold, adj_list, components, merged, prev,
           max_drawings, chunks, large, gpc>>
dvars == <<doc, pc, page_num, text, img_index, grouped, group_num,
           surrounding, figure_bbox, log, text_file>>
vars == <<gvars, dvars>>

None == "None"

-----------------------------------------------------------------------------
(* Bounds of the model *)

\* longest drawing list of SpecGroup
MaxLen == 3
\* largest threshold of SpecGroup
MaxT == 1
\* most pages of a document of Spec
MaxPages == 2

-----------------------------------------------------------------------------
(* fitz.Rect and rtree *)

Min(a, b) == IF a <= b THEN a ELSE b
Max(a, b) == IF a >= b THEN a ELSE b

\* Rect.is_empty: no positive area (lines and points are empty)
IsEmpty(r) == r[1] >= r[3] \/ r[2] >= r[4]

\* Rect.__bool__: false only for the all-zero rectangle
RectBool(r) == ~(r[1] = 0 /\ r[2] = 0 /\ r[3] = 0 /\ r[4] = 0)

\* Rect.__add__ with a 4-sequence: component-wise sum
RectAdd(r, d) == <<r[1] + d[1], r[2] + d[2], r[3] + d[3], r[4] + d[4]>>

\* Rect.__or__ (include_rect): an empty operand is ignored, otherwise the
\* smallest rectangle enclosing both
RectOr(a, b) ==
  IF IsEmpty(b) THEN a
  ELSE IF IsEmpty(a) THEN b
  ELSE <<Min(a[1], b[1]), Min(a[2], b[2]), Max(a[3], b[3]), Max(a[4], b[4])>>

\* Rect.intersects: both non-empty and the intersection is non-empty
RectIntersects(a, b) ==
  /\ ~IsEmpty(a)
  /\ ~IsEmpty(b)
  /\ ~IsEmpty(<<Max(a[1], b[1]), Max(a[2], b[2]), Min(a[3], b[3]), Min(a[4], b[4])>>)

\* rtree's intersection test on stored bounds: closed boxes, touching counts
BoxesIntersect(a, b) ==
  /\ a[1] <= b[3] /\ b[1] <= a[3]
  /\ a[2] <= b[4] /\ b[2] <= a[4]

Range(s) == {s[i] : i \in 1..Len(s)}

RECURSIVE Flatten(_)
Flatten(ss) == IF ss = <<>> THEN <<>> ELSE Head(ss) \o Flatten(Tail(ss))

-----------------------------------------------------------------------------
(* merge_bounding_boxes *)

RECURSIVE MergeFold(_, _)
MergeFold(combined_bbox, rest) ==
  IF rest = <<>> THEN combined_bbox
  ELSE MergeFold(RectOr(combined_bbox, Head(rest)), Tail(rest))

merge_bounding_boxes(bboxes) ==
  IF bboxes = <<>> THEN None ELSE MergeFold(Head(bboxes), Tail(bboxes))

-----------------------------------------------------------------------------
(* group_bounding_boxes *)

\* a mutant of Expanded: the margins with the wrong signs
ExpandedShrinks(rect, t) == RectAdd(rect, <<t, t, -t, -t>>)

\* expanded = rect + (-threshold, -threshold, threshold, threshold)
Expanded(rect, t) == RectAdd(rect, <<-t, -t, t, t>>)

\* idx.intersection(expanded) for rectangle i, over the index that holds every
\* rectangle's expanded form under its list position (ids in ascending order)
IdxIntersection(bboxes, t, i) ==
  SelectSeq([j \in 1..Len(bboxes) |-> j],
            LAMBDA j : BoxesIntersect(Expanded(bboxes[j], t), Expanded(bboxes[i], t)))

\* adj_list[i]: the ids the query returns, except i itself
AdjList(bboxes, t) ==
  [i \in 1..Len(bboxes) |->
     SelectSeq(IdxIntersection(bboxes, t, i), LAMBDA j : i # j)]

\* dfs(node, component): st carries visited and component
RECURSIVE dfs(_, _, _)
RECURSIVE DfsNeighbors(_, _, _)
dfs(adj, node, st) ==
  DfsNeighbors(adj, adj[node],
               [visited |-> st.visited \cup {node},
                component |-> Append(st.component, node)])
DfsNeighbors(adj, nbrs, st) ==
  IF nbrs = <<>> THEN st
  ELSE DfsNeighbors(adj, Tail(nbrs),
                    IF Head(nbrs) \in st.visited THEN st
                    ELSE dfs(adj, Head(nbrs), st))

\* a mutant of ComponentsLoop: the "if not visited[i]" test is dropped
RECURSIVE ComponentsLoopNoVisitedTest(_, _, _, _, _)
ComponentsLoopNoVisitedTest(adj, n, i, visited, comps) ==
  IF i > n THEN comps
  ELSE LET st == dfs(adj, i, [visited |-> {}, component |-> <<>>])
       IN  ComponentsLoopNoVisitedTest(adj, n, i + 1, st.visited, Append(comps, st.component))

\* for i in range(len(bboxes)): if not visited[i]: dfs(i, component) ...
RECURSIVE ComponentsLoop(_, _, _, _, _)
ComponentsLoop(adj, n, i, visited, comps) ==
  IF i > n THEN comps
  ELSE IF i \in visited THEN ComponentsLoop(adj, n, i + 1, visited, comps)
  ELSE LET st == dfs(adj, i, [visited |-> visited, component |-> <<>>])
       IN  ComponentsLoop(adj, n, i + 1, st.visited, Append(comps, st.component))

\* the components list, each component as the list of its nodes in dfs order
\* (the source appends bboxes[node]; GroupRects maps the nodes to rectangles)
Components(bboxes, t) ==
  ComponentsLoop(AdjList(bboxes, t), Len(bboxes), 1, {}, <<>>)

GroupRects(bboxes, component) ==
  [k \in 1..Len(component) |-> bboxes[component[k]]]

group_bounding_boxes(bboxes, t) ==
  LET comps == Components(bboxes, t)
  IN  [c \in 1..Len(comps) |-> merge_bounding_boxes(GroupRects(bboxes, comps[c]))]

-----------------------------------------------------------------------------
(* process_large_drawing *)

\* bboxes = [fitz.Rect(d["rect"]) for d in drawings if d.get("rect")]
Bboxes(ds) == SelectSeq(ds, RectBool)

\* bboxes[chunk_index * max_drawings : (chunk_index + 1) * max_drawings]
Chunk(bboxes, m, chunk_index) ==
  SubSeq(bboxes, chunk_index * m + 1, Min((chunk_index + 1) * m, Len(bboxes)))

\* the chunks of the chunked path, num_chunks = len(bboxes) // max_drawings + 1
ChunksOf(bboxes, m) ==
  [k \in 1..((Len(bboxes) \div m) + 1) |-> Chunk(bboxes, m, k - 1)]

ChunkedGrouping(bboxes, m, t) ==
  LET cs == ChunksOf(bboxes, m)
      all_results == Flatten([k \in 1..Len(cs) |-> group_bounding_boxes(cs[k], t)])
  IN  group_bounding_boxes(all_results, t)

\* a mutant of process_large_drawing: the direct path is never taken
process_large_drawing_always_chunked(ds, m, t) ==
  ChunkedGrouping(Bboxes(ds), m, t)

process_large_drawing(ds, m, t) ==
  LET bboxes == Bboxes(ds)
  IN  IF Len(bboxes) < m THEN group_bounding_boxes(bboxes, t)
      ELSE ChunkedGrouping(bboxes, m, t)

-----------------------------------------------------------------------------
(* SpecGroup: the grouping functions on bounded inputs *)

\* The rectangles the drawing lists are drawn from:
\*   tall and wide touch along x = 1 and span (0,0)-(3,3) together;
\*   corner lies inside that span, 1 away from tall and from wide;
\*   line is a horizontal stroke (an empty rectangle) that touches tall and corner;
\*   far is 3 away from corner;
\*   zero is the all-zero rectangle, which process_large_drawing filters out.
tall   == <<0, 0, 1, 3>>
wide   == <<1, 0, 3, 1>>
corner == <<2, 2, 3, 3>>
line   == <<1, 3, 2, 3>>
far    == <<6, 6, 7, 7>>
zero   == <<0, 0, 0, 0>>
Palette == {tall, wide, corner, line, far, zero}

SeqsUpTo(S, n) == UNION {[1..k -> S] : k \in 0..n}

InitDoc ==
  /\ doc = <<>>
  /\ pc = "idle"
  /\ page_num = 0
  /\ text = <<>>
  /\ img_index = 0
  /\ grouped = <<>>
  /\ group_num = 0
  /\ surrounding = <<>>
  /\ figure_bbox = None
  /\ log = <<>>
  /\ text_file = None

InitGroup ==
  /\ drawings \in SeqsUpTo(Palette, MaxLen)
  /\ threshold \in 0..MaxT
  /\ adj_list = <<>>
  /\ components = <<>>
  /\ merged = <<>>
  /\ prev = <<>>
  /\ max_drawings = 0
  /\ chunks = <<>>
  /\ large = None
  /\ gpc = "start"
  /\ InitDoc

\* group_bounding_boxes(bboxes, threshold=threshold) on the filtered list
Group ==
  /\ gpc = "start"
  /\ adj_list' = AdjList(Bboxes(drawings), threshold)
  /\ components' = Components(Bboxes(drawings), threshold)
  /\ merged' = group_bounding_boxes(Bboxes(drawings), threshold)
  /\ gpc' = "grouped"
  /\ UNCHANGED <<drawings, threshold, prev, max_drawings, chunks, large>>
  /\ UNCHANGED dvars

\* process_large_drawing(drawings, max_drawings=m, threshold=threshold)
ProcessLarge ==
  /\ gpc = "grouped"
  /\ \E m \in 1..(MaxLen + 1) :
       /\ max_drawings' = m
       /\ chunks' = IF Len(Bboxes(drawings)) < m THEN <<>>
                    ELSE ChunksOf(Bboxes(drawings), m)
       /\ large' = process_large_drawing(drawings, m, threshold)
  /\ gpc' = "processed"
  /\ UNCHANGED <<drawings, threshold, adj_list, components, merged, prev>>
  /\ UNCHANGED dvars

\* the same list grouped once more, with a larger threshold
GroupAgain ==
  /\ gpc \in {"grouped", "processed"}
  /\ \E t \in (threshold + 1)..MaxT :
       /\ threshold' = t
       /\ adj_list' = AdjList(Bboxes(drawings), t)
       /\ components' = Components(Bboxes(drawings), t)
       /\ merged' = group_bounding_boxes(Bboxes(drawings), t)
  /\ prev' = <<[threshold |-> threshold, components |-> components]>>
  /\ max_drawings' = 0
  /\ chunks' = <<>>
  /\ large' = None
  /\ gpc' = "grouped"
  /\ UNCHANGED drawings
  /\ UNCHANGED dvars

NextGroup == Group \/ ProcessLarge \/ GroupAgain

SpecGroup == InitGroup /\ [][NextGroup]_vars

-----------------------------------------------------------------------------
(* Properties of the grouping functions, checked under SpecGroup *)

\* the filtered list the grouping works on
TheBboxes == Bboxes(drawings)

\* r lies within R: all four corners of r are points of R
Contains(R, r) == R[1] <= r[1] /\ R[2] <= r[2] /\ r[3] <= R[3] /\ r[4] <= R[4]

\* edge-to-edge distance of a and b along one axis (lo, hi the tuple positions
\* of that axis), 0 where they overlap or touch
Gap(a, b, lo, hi) == Max(0, Max(a[lo], b[lo]) - Min(a[hi], b[hi]))

RECURSIVE SumLen(_)
SumLen(ss) == IF ss = <<>> THEN 0 ELSE Len(Head(ss)) + SumLen(Tail(ss))

\* C1: the components of group_bounding_boxes partition the input indices:
\* every index is in exactly one component and at one place of it, the
\* component sizes sum to the input count, one merged rectangle is returned
\* per component, and the empty input gives the empty result.
C1_Partition ==
  gpc # "start" =>
    /\ \A i \in 1..Len(TheBboxes) :
         Cardinality({<<c, k>> \in (1..Len(components)) \X (1..Len(TheBboxes)) :
                        k <= Len(components[c]) /\ components[c][k] = i}) = 1
    /\ SumLen(components) = Len(TheBboxes)
    /\ Len(merged) = Len(components)
    /\ (TheBboxes = <<>> => merged = <<>>)

\* C1 witness: a grouping with a component of several rectangles next to
\* another component
C1_Witness ==
  /\ gpc = "grouped"
  /\ Len(components) >= 2
  /\ \E c \in 1..Len(components) : Len(components[c]) >= 2

\* C2 as claimed: with max_drawings >= the number of rectangles (equality
\* included) process_large_drawing returns what group_bounding_boxes returns
\* for the same list and threshold.
C2_ChunkingEquivalence_Claimed ==
  (gpc = "processed" /\ max_drawings >= Len(TheBboxes)) => large = merged

\* C2 amended: the same with max_drawings strictly larger than the number of
\* rectangles.
C2_ChunkingEquivalence ==
  (gpc = "processed" /\ max_drawings > Len(TheBboxes)) => large = merged

\* C2 witness: a list grouped through process_large_drawing below max_drawings
\* for which chunking with that max_drawings would have changed the result
C2_Witness ==
  /\ gpc = "processed"
  /\ max_drawings > Len(TheBboxes)
  /\ Len(TheBboxes) >= 1
  /\ large = merged
  /\ ChunkedGrouping(TheBboxes, Len(TheBboxes), threshold) # merged

\* C3: i and j are adjacent exactly when the gap between the two original
\* rectangles is less than the threshold on each axis; rectangles a gap of the
\* threshold or more apart are never adjacent.
C3_AdjacencyIsGapBelowThreshold ==
  gpc # "start" =>
    \A i, j \in 1..Len(TheBboxes) :
      i # j =>
        ((j \in Range(adj_list[i])) <=>
           (/\ Gap(TheBboxes[i], TheBboxes[j], 1, 3) < threshold
            /\ Gap(TheBboxes[i], TheBboxes[j], 2, 4) < threshold))

\* C4: every component of the grouping at the lower threshold lies within one
\* component of the grouping at the higher threshold, and the higher threshold
\* gives no more components.
C4_MonotonicMerging ==
  prev # <<>> =>
    /\ prev[1].threshold <= threshold
    /\ \A c \in 1..Len(prev[1].components) :
         \E d \in 1..Len(components) :
           Range(prev[1].components[c]) \subseteq Range(components[d])
    /\ Len(components) <= Len(prev[1].components)

\* C4 witness: raising the threshold merged components
C4_Witness ==
  /\ prev # <<>>
  /\ prev[1].threshold < threshold
  /\ Len(components) < Len(prev[1].components)
  /\ Len(components) >= 1

\* C10: on the chunked path every rectangle is in exactly one chunk, the
\* chunks in order make up the list, and every component of the direct
\* grouping has all its rectangles inside one single returned rectangle.
C10_ChunkedCoversDirectComponents ==
  (gpc = "processed" /\ Len(TheBboxes) >= max_drawings) =>
    /\ Flatten(chunks) = TheBboxes
    /\ \A k \in 1..Len(chunks) : Len(chunks[k]) <= max_drawings
    /\ \A c \in 1..Len(components) :
         \E R \in Range(large) :
           \A i \in Range(components[c]) : Contains(R, TheBboxes[i])

-----------------------------------------------------------------------------
(* extract_vector, find_surrounding_text, extract_images, extract_pdf_ragntex *)

\* constants of extract_vector; MIN_SIZE and MAX_SIZE are the fractions 0.05
\* and 0.30 in hundredths, so that the comparisons stay in the integers
MAX_DRAWINGS == 1000
MIN_SIZE == 5
MAX_SIZE == 30
THRESHOLD == 5

\* page_size = page.rect.width * page.rect.height
PageSize(page) == page.width * page.height

\* find_surrounding_text(page, group, threshold): the rectangles of the blocks
\* of type 0 that intersect the expanded group, in block order
find_surrounding_text(page, group, t) ==
  LET hits == SelectSeq(page.blocks,
                        LAMBDA block : /\ block.type = 0
                                       /\ RectIntersects(Expanded(group, t), block.bbox))
  IN  [k \in 1..Len(hits) |-> hits[k].bbox]

\* figure_bbox: the group merged with its surrounding text, or the group
FigureBbox(group, around) ==
  IF around # <<>> THEN merge_bounding_boxes(<<group>> \o around) ELSE group

\* area = width * height of figure_bbox
Area(bbox) == (bbox[3] - bbox[1]) * (bbox[4] - bbox[2])

\* a mutant of Accepts: the lower bound is not strict
AcceptsFromMinSize(area, page_size) ==
  100 * area >= page_size * MIN_SIZE /\ 100 * area < page_size * MAX_SIZE

\* area > min_size and area < max_size
Accepts(area, page_size) ==
  100 * area > page_size * MIN_SIZE /\ 100 * area < page_size * MAX_SIZE

\* text.strip(): leading and trailing whitespace removed
Whitespace == {" ", "\n"}
RECURSIVE LStrip(_)
LStrip(s) == IF s # <<>> /\ Head(s) \in Whitespace THEN LStrip(Tail(s)) ELSE s
RECURSIVE RStrip(_)
RStrip(s) ==
  IF s # <<>> /\ s[Len(s)] \in Whitespace THEN RStrip(SubSeq(s, 1, Len(s) - 1)) ELSE s
Strip(s) == RStrip(LStrip(s))

\* " ".join([text, page_text])
Join(t, page_text) == t \o <<" ">> \o page_text

\* Pages of the documents.  Every page is 100 x 10 (page_size 1000, so that
\* min_size is 50 and max_size is 300); along x the drawings of a page are
\* at least 11 apart where they are to stay separate groups.
d49    == <<0, 0, 7, 7>>
d50    == <<18, 0, 23, 10>>
d51    == <<34, 0, 51, 3>>
d300   == <<62, 0, 92, 10>>
stroke == <<51, 5, 60, 5>>

Page(t, n, ds, bs) ==
  [text |-> t, images |-> n, drawings |-> ds, blocks |-> bs, width |-> 100, height |-> 10]

\* four separate drawings of areas 49, 50, 51 and 300
BoundaryPage == Page(<<"a", "\n">>, 1, <<d49, d50, d51, d300>>, <<>>)
\* a small drawing with a caption below it, an image block over it and a text
\* block whose edge is exactly THRESHOLD away
CaptionPage ==
  Page(<<" ", "b", " ", "c", "\n">>, 2, <<d49>>,
       <<[type |-> 1, bbox |-> <<0, 0, 40, 10>>],
         [type |-> 0, bbox |-> <<0, 7, 7, 9>>],
         [type |-> 0, bbox |-> <<12, 0, 20, 5>>]>>)
\* a box with a horizontal stroke next to it
StrokePage == Page(<<"d">>, 0, <<d51, stroke>>, <<>>)
\* text only
TextPage == Page(<<"e", " ", "f">>, 0, <<>>, <<>>)
\* no text, one image
BlankPage == Page(<<"\n">>, 1, <<>>, <<>>)

Pages == {BoundaryPage, CaptionPage, StrokePage, TextPage, BlankPage}

InitGroupIdle ==
  /\ drawings = <<>>
  /\ threshold = 0
  /\ adj_list = <<>>
  /\ components = <<>>
  /\ merged = <<>>
  /\ prev = <<>>
  /\ max_drawings = 0
  /\ chunks = <<>>
  /\ large = None
  /\ gpc = "idle"

\* doc = fitz.open(pdf_path); text = ""
Init ==
  /\ doc \in SeqsUpTo(Pages, MaxPages)
  /\ pc = "page"
  /\ page_num = 0
  /\ text = <<>>
  /\ img_index = 0
  /\ grouped = <<>>
  /\ group_num = 0
  /\ surrounding = <<>>
  /\ figure_bbox = None
  /\ log = <<>>
  /\ text_file = None
  /\ InitGroupIdle

ThePage == doc[page_num + 1]

\* text = " ".join([text, page.get_text().strip()]), then extract_images is entered
PageText ==
  /\ pc = "page"
  /\ page_num < Len(doc)
  /\ text' = Join(text, Strip(ThePage.text))
  /\ log' = Append(log, [kind |-> "text", page |-> page_num, index |-> 0])
  /\ img_index' = 0
  /\ pc' = "images"
  /\ UNCHANGED <<doc, page_num, grouped, group_num, surrounding, figure_bbox, text_file>>
  /\ UNCHANGED gvars

\* extract_images: one image saved as page<page_num>_img<img_index>_hash<...>.png
ExtractImage ==
  /\ pc = "images"
  /\ img_index < ThePage.images
  /\ log' = Append(log, [kind |-> "img", page |-> page_num, index |-> img_index])
  /\ img_index' = img_index + 1
  /\ UNCHANGED <<doc, pc, page_num, text, grouped, group_num, surrounding,
                 figure_bbox, text_file>>
  /\ UNCHANGED gvars

\* extract_images returns; extract_vector groups the drawings of the page
ExtractVector ==
  /\ pc = "images"
  /\ img_index = ThePage.images
  /\ grouped' = process_large_drawing(ThePage.drawings, MAX_DRAWINGS, THRESHOLD)
  /\ group_num' = 0
  /\ pc' = "group"
  /\ UNCHANGED <<doc, page_num, text, img_index, surrounding, figure_bbox, log, text_file>>
  /\ UNCHANGED gvars

\* for group_num, group in enumerate(grouped): surrounding text and figure_bbox
Candidate ==
  /\ pc = "group"
  /\ group_num < Len(grouped)
  /\ LET group == grouped[group_num + 1]
         around == find_surrounding_text(ThePage, group, THRESHOLD)
     IN  /\ surrounding' = around
         /\ figure_bbox' = FigureBbox(group, around)
  /\ pc' = "filter"
  /\ UNCHANGED <<doc, page_num, text, img_index, grouped, group_num, log, text_file>>
  /\ UNCHANGED gvars

\* the size filter: an accepted candidate goes on to page.get_pixmap, a
\* rejected one to the next group
Filter ==
  /\ pc = "filter"
  /\ IF Accepts(Area(figure_bbox), PageSize(ThePage))
     THEN pc' = "render" /\ group_num' = group_num
     ELSE pc' = "group" /\ group_num' = group_num + 1
  /\ UNCHANGED <<doc, page_num, text, img_index, grouped, surrounding, figure_bbox,
                 log, text_file>>
  /\ UNCHANGED gvars

\* get_pixmap and tobytes succeed: the figure is saved as
\* page<page_num>_fig<group_num>_hash<...>.png
RenderAndSave ==
  /\ pc = "render"
  /\ log' = Append(log, [kind |-> "fig", page |-> page_num, index |-> group_num])
  /\ group_num' = group_num + 1
  /\ pc' = "group"
  /\ UNCHANGED <<doc, page_num, text, img_index, grouped, surrounding, figure_bbox,
                 text_file>>
  /\ UNCHANGED gvars

\* get_pixmap raises: nothing catches the exception in extract_vector,
\* extract_pdf_ragntex or main
RenderRaises ==
  /\ pc = "render"
  /\ pc' = "raised"
  /\ UNCHANGED <<doc, page_num, text, img_index, grouped, group_num, surrounding,
                 figure_bbox, log, text_file>>
  /\ UNCHANGED gvars

\* a mutant of VectorDone: the text file is written inside the page loop
VectorDoneSavesText ==
  /\ pc = "group"
  /\ group_num = Len(grouped)
  /\ page_num' = page_num + 1
  /\ text_file' = text
  /\ log' = Append(log, [kind |-> "txt", page |-> page_num, index |-> 0])
  /\ pc' = "page"
  /\ UNCHANGED <<doc, text, img_index, grouped, group_num, surrounding, figure_bbox>>
  /\ UNCHANGED gvars

\* extract_vector returns; the loop of extract_pdf_ragntex goes to the next page
VectorDone ==
  /\ pc = "group"
  /\ group_num = Len(grouped)
  /\ page_num' = page_num + 1
  /\ pc' = "page"
  /\ UNCHANGED <<doc, text, img_index, grouped, group_num, surrounding, figure_bbox,
                 log, text_file>>
  /\ UNCHANGED gvars

\* after the last page: ragntex.txt is written and True is returned
SaveText ==
  /\ pc = "page"
  /\ page_num = Len(doc)
  /\ text_file' = text
  /\ log' = Append(log, [kind |-> "txt", page |-> page_num, index |-> 0])
  /\ pc' = "done"
  /\ UNCHANGED <<doc, page_num, text, img_index, grouped, group_num, surrounding,
                 figure_bbox>>
  /\ UNCHANGED gvars

Next ==
  \/ PageText
  \/ ExtractImage
  \/ ExtractVector
  \/ Candidate
  \/ Filter
  \/ RenderAndSave
  \/ RenderRaises
  \/ VectorDone
  \/ SaveText

Spec == Init /\ [][Next]_vars

-----------------------------------------------------------------------------
(* Properties of the document pipeline, checked under Spec *)

\* the figure candidates of a page, in group order
CandidatesOf(page) ==
  LET gs == process_large_drawing(page.drawings, MAX_DRAWINGS, THRESHOLD)
  IN  [g \in 1..Len(gs) |->
         FigureBbox(gs[g], find_surrounding_text(page, gs[g], THRESHOLD))]

\* a figure file has been written for group g (zero-based) of page p (zero-based)
FigWritten(p, g) ==
  \E e \in 1..Len(log) : log[e] = [kind |-> "fig", page |-> p, index |-> g]

\* the groups of page p (zero-based) that extract_vector is through with
HandledGroups(p) ==
  IF p < page_num THEN 1..Len(CandidatesOf(doc[p + 1]))
  ELSE IF p = page_num /\ pc \in {"group", "filter", "render", "raised"} THEN 1..group_num
  ELSE {}

\* the area lies strictly between the two fractions of the page area
StrictlyBetween(area, page_size) ==
  page_size * MIN_SIZE < 100 * area /\ 100 * area < page_size * MAX_SIZE

\* C5: the figure_bbox of a candidate contains every rectangle of the
\* component it was merged from and every text block rectangle folded into
\* it, and equals the merged group when no text block was found.
C5_FigureBboxContainsContributors ==
  pc \in {"filter", "render"} =>
    LET bboxes == Bboxes(ThePage.drawings)
        comp == Components(bboxes, THRESHOLD)[group_num + 1]
    IN  /\ \A i \in Range(comp) : Contains(figure_bbox, bboxes[i])
        /\ \A b \in Range(surrounding) : Contains(figure_bbox, b)
        /\ (surrounding = <<>> => figure_bbox = grouped[group_num + 1])

\* C6: a figure file is written for a candidate exactly when its area lies
\* strictly between min_fraction and max_fraction of the page area; a rejected
\* candidate is neither rendered nor the cause of an error.
C6_FilterBoundary ==
  /\ \A p \in 0..(Len(doc) - 1) :
       \A g \in HandledGroups(p) :
         FigWritten(p, g - 1) <=>
           StrictlyBetween(Area(CandidatesOf(doc[p + 1])[g]), PageSize(doc[p + 1]))
  /\ pc \in {"render", "raised"} =>
       StrictlyBetween(Area(figure_bbox), PageSize(ThePage))

\* C6 witness: a finished page with candidates of exactly min_size and exactly
\* max_size, both without a file, and a candidate in between with a file
C6_Witness ==
  \E p \in 0..(Len(doc) - 1) :
    /\ p < page_num
    /\ \E g \in HandledGroups(p) :
         /\ 100 * Area(CandidatesOf(doc[p + 1])[g]) = PageSize(doc[p + 1]) * MIN_SIZE
         /\ ~FigWritten(p, g - 1)
    /\ \E g \in HandledGroups(p) :
         /\ 100 * Area(CandidatesOf(doc[p + 1])[g]) = PageSize(doc[p + 1]) * MAX_SIZE
         /\ ~FigWritten(p, g - 1)
    /\ \E g \in HandledGroups(p) : FigWritten(p, g - 1)

\* C7: when the run has ended after a render failure, every page has been
\* processed and the text file has been written.
C7_RenderFailureIsRecovered ==
  pc \in {"done", "raised"} => (page_num = Len(doc) /\ text_file # None)

\* the place of an effect within its page: text, then images, then figures
Rank(e) == CASE e.kind = "text" -> 0 [] e.kind = "img" -> 1 [] e.kind = "fig" -> 2
           [] OTHER -> 3

\* C8: effects come in page order; within a page the text is appended first
\* and once, image files come next and figure files last; the text file is
\* written at most once, after every page has been processed, and exactly
\* once when extract_pdf_ragntex has returned.
C8_EventOrdering ==
  /\ \A i, j \in 1..Len(log) :
       i < j =>
         /\ log[i].page <= log[j].page
         /\ log[i].page = log[j].page => Rank(log[i]) <= Rank(log[j])
         /\ log[i].kind # "txt"
         /\ ~(log[i].kind = "text" /\ log[j].kind = "text" /\ log[i].page = log[j].page)
  /\ \A i \in 1..Len(log) :
       log[i].kind = "txt" =>
         /\ log[i].page = Len(doc)
         /\ \A p \in 0..(Len(doc) - 1) :
              \E k \in 1..(i - 1) : log[k].kind = "text" /\ log[k].page = p
  /\ (text_file # None) <=> (\E i \in 1..Len(log) : log[i].kind = "txt")
  /\ pc = "done" => (log # <<>> /\ log[Len(log)].kind = "txt")

\* C8 witness: a two-page document is done, with an image and a figure
\* written for the first page and an image for the second
C8_Witness ==
  /\ pc = "done"
  /\ Len(doc) = 2
  /\ \E i, j, k \in 1..Len(log) :
       /\ log[i].kind = "img" /\ log[i].page = 0
       /\ log[j].kind = "fig" /\ log[j].page = 0
       /\ log[k].kind = "img" /\ log[k].page = 1

\* the page texts joined by single separators, none before the first
RECURSIVE JoinedPages(_)
JoinedPages(ps) ==
  IF ps = <<>> THEN <<>>
  ELSE IF Len(ps) = 1 THEN Strip(ps[1].text)
  ELSE JoinedPages(SubSeq(ps, 1, Len(ps) - 1)) \o <<" ">> \o Strip(ps[Len(ps)].text)

\* C9: the text file holds the page texts in page order with one separator
\* between consecutive pages and none before the first or after the last.
C9_TextFileIsJoinedPages ==
  pc = "done" => text_file = JoinedPages(doc)

=============================================================================
